---- MODULE Spec2Model ----
(***************************************************************************)
(* A model of the terminal menu of src/main.rs: the selection state App,   *)
(* the key handler InputHandler::handle_key_event, the presenter           *)
(* AppPresenter and the poll loop of main.                                 *)
(*                                                                         *)
(* Two specifications share the variables:                                 *)
(*   Spec     the program as main runs it, on the literal 3-element list;  *)
(*   AppSpec  the public methods of App called in any order on an App      *)
(*            built by App::new from any choice list of bounded length.    *)
(* A panic ends the run: the variables keep the values the panicking       *)
(* method had assigned before it panicked and no further step is taken.    *)
(***************************************************************************)
EXTENDS Integers, Sequences, FiniteSets, TLC

VARIABLES
    app,             \* struct App: selected_index, selected_item, selected_message, choices
    status,          \* "Running", "Exiting" (main returned Ok), "Failed" (main returned Err), "Panicked"
    pc,              \* position of main: the call it is about to make
    event,           \* the event last returned by event::read()
    error,           \* the call whose failure stopped main, or "none"
    terminal_mode,   \* mode of the controlling terminal: "cooked" (as found) or "raw"
    frame,           \* the frame last drawn by AppPresenter::render
    last_op,         \* the App method called last
    overflow_checks  \* build profile: TRUE = arithmetic overflow panics (debug), FALSE = it wraps (release)

vars == <<app, status, pc, event, error, terminal_mode, frame, last_op, overflow_checks>>

----------------------------------------------------------------------------
(* Bounds of the model *)

\* longest choice list handed to App::new under AppSpec
MaxChoices == 4

\* the strings the choice lists are built from
ChoiceStrings == {"Choice 1", "Choice 2", "Choice 3"}

ChoiceLists == UNION {[1..n -> ChoiceStrings] : n \in 0..MaxChoices}

----------------------------------------------------------------------------
(* Program constants *)

\* the table of App::update_message
messages == <<"You selected Choice 1!", "You selected Choice 2!", "You selected Choice 3!">>

\* the list main hands to App::new
StartupChoices == <<"Choice 1", "Choice 2", "Choice 3">>

\* Stands for usize::MAX, the value 0usize - 1 wraps to when overflow checks
\* are off.  The real value (2^64 - 1) is beyond the integers of the model
\* checker; the model only uses that it is not below any list or table length.
USIZE_MAX == 2147483647

----------------------------------------------------------------------------
(* struct App and its methods.  A method yields the App it leaves behind   *)
(* and whether it panicked.                                                *)

Returned(a) == [app |-> a, panicked |-> FALSE]
Panic(a)    == [app |-> a, panicked |-> TRUE]

\* App::new preselecting the first choice
new_preselected(choices) ==
    [selected_index |-> 0,
     selected_item |-> IF Len(choices) = 0 THEN "" ELSE choices[1],
     selected_message |-> "",
     choices |-> choices]

new(choices) ==
    [selected_index |-> 0, selected_item |-> "", selected_message |-> "", choices |-> choices]

\* messages[self.selected_index]: an index past the table panics
update_message(a) ==
    IF a.selected_index < Len(messages)
    THEN Returned([a EXCEPT !.selected_message = messages[a.selected_index + 1]])
    ELSE Panic(a)

\* select_next that also confirms the choice it moves to
select_next_confirming(a) ==
    IF Len(a.choices) = 0
    THEN Panic(a)
    ELSE update_message(
            [a EXCEPT !.selected_index = (a.selected_index + 1) % Len(a.choices),
                      !.selected_item = a.choices[((a.selected_index + 1) % Len(a.choices)) + 1]])

\* select_next with the modulo dropped
select_next_nowrap(a) ==
    IF Len(a.choices) = 0
    THEN Panic(a)
    ELSE update_message([a EXCEPT !.selected_index = a.selected_index + 1])

\* (self.selected_index + 1) % self.choices.len(): a zero divisor panics
select_next(a) ==
    IF Len(a.choices) = 0
    THEN Panic(a)
    ELSE update_message([a EXCEPT !.selected_index = (a.selected_index + 1) % Len(a.choices)])

\* select_previous saturating at 0 instead of wrapping to the last index
select_previous_nowrap(a, checks) ==
    IF a.selected_index = 0
    THEN update_message(a)
    ELSE update_message([a EXCEPT !.selected_index = a.selected_index - 1])

\* self.choices.len() - 1 on an empty list: panics with overflow checks,
\* wraps to usize::MAX without
select_previous(a, checks) ==
    IF a.selected_index = 0
    THEN IF Len(a.choices) = 0
         THEN IF checks
              THEN Panic(a)
              ELSE update_message([a EXCEPT !.selected_index = USIZE_MAX])
         ELSE update_message([a EXCEPT !.selected_index = Len(a.choices) - 1])
    ELSE update_message([a EXCEPT !.selected_index = a.selected_index - 1])

\* confirm_selection copying the first choice whatever the index
confirm_selection_first(a) ==
    IF a.selected_index < Len(a.choices)
    THEN update_message([a EXCEPT !.selected_item = a.choices[1]])
    ELSE Panic(a)

\* self.choices[self.selected_index]: an index past the list panics
confirm_selection(a) ==
    IF a.selected_index < Len(a.choices)
    THEN update_message([a EXCEPT !.selected_item = a.choices[a.selected_index + 1]])
    ELSE Panic(a)

----------------------------------------------------------------------------
(* Events and InputHandler::handle_key_event *)

KeyCodes == {"Esc", "Down", "Up", "Enter", "Left", "Char"}
KeyKinds == {"Press", "Release", "Repeat"}
KeyEvents == [type : {"Key"}, kind : KeyKinds, code : KeyCodes]
OtherEvents == {[type |-> "Resize", kind |-> "none", code |-> "none"],
                [type |-> "Mouse", kind |-> "none", code |-> "none"]}
Events == KeyEvents \cup OtherEvents
NoEvent == [type |-> "none", kind |-> "none", code |-> "none"]

\* Dispatch with the catch-all arm moving the selection
Dispatch_anykey(key_event) ==
    IF key_event.kind # "Press" THEN "none"
    ELSE CASE key_event.code = "Up"    -> "select_previous"
           [] key_event.code = "Enter" -> "confirm_selection"
           [] key_event.code = "Esc"   -> "none"
           [] OTHER                    -> "select_next"

\* Dispatch without the test of the event kind
Dispatch_anykind(key_event) ==
    CASE key_event.code = "Down"  -> "select_next"
      [] key_event.code = "Up"    -> "select_previous"
      [] key_event.code = "Enter" -> "confirm_selection"
      [] OTHER                    -> "none"

\* the App method a key event is dispatched to, "none" when it calls none
Dispatch(key_event) ==
    IF key_event.kind # "Press" THEN "none"
    ELSE CASE key_event.code = "Down"  -> "select_next"
           [] key_event.code = "Up"    -> "select_previous"
           [] key_event.code = "Enter" -> "confirm_selection"
           [] OTHER                    -> "none"

\* the Esc arm returning false
ExitRequested_never(key_event) == FALSE

\* the Enter arm returning true as well
ExitRequested_enter(key_event) ==
    key_event.kind = "Press" /\ key_event.code \in {"Esc", "Enter"}

\* the value handle_key_event returns when it returns: TRUE ends the loop
ExitRequested(key_event) ==
    key_event.kind = "Press" /\ key_event.code = "Esc"

\* handle_key_event with the Enter arm leaving the message alone
handle_key_event_stale(a, key_event, checks) ==
    CASE Dispatch(key_event) = "select_next"       -> select_next(a)
      [] Dispatch(key_event) = "select_previous"   -> select_previous(a, checks)
      [] Dispatch(key_event) = "confirm_selection" ->
            Returned([a EXCEPT !.selected_item = a.choices[a.selected_index + 1]])
      [] OTHER                                     -> Returned(a)

\* the App handle_key_event leaves behind, and whether it panicked
handle_key_event(a, key_event, checks) ==
    CASE Dispatch(key_event) = "select_next"       -> select_next(a)
      [] Dispatch(key_event) = "select_previous"   -> select_previous(a, checks)
      [] Dispatch(key_event) = "confirm_selection" -> confirm_selection(a)
      [] OTHER                                     -> Returned(a)

----------------------------------------------------------------------------
(* AppPresenter *)

\* render_choices comparing the 1-based position with selected_index
render_choices_offbyone(a) ==
    [i \in 1..Len(a.choices) |->
        [text |-> a.choices[i],
         style |-> IF i = a.selected_index THEN "Yellow" ELSE "Default"]]

\* one ListItem per choice, in order; the style is Yellow at selected_index
render_choices(a) ==
    [i \in 1..Len(a.choices) |->
        [text |-> a.choices[i],
         style |-> IF i - 1 = a.selected_index THEN "Yellow" ELSE "Default"]]

\* render showing the bare selected_item, without the "Selected: " label
render_unlabelled(a) ==
    [choices  |-> render_choices(a),
     selected |-> a.selected_item,
     message  |-> a.selected_message]

\* the three regions of a frame
render(a) ==
    [choices  |-> render_choices(a),
     selected |-> "Selected: " \o a.selected_item,
     message  |-> a.selected_message]

NoFrame == [choices |-> <<>>, selected |-> "", message |-> ""]

----------------------------------------------------------------------------
(* main *)

Stop(how, what) ==
    /\ status' = how
    /\ error' = what
    /\ pc' = "done"

\* color_eyre::install()?
Install ==
    /\ pc = "install"
    /\ \E ok \in BOOLEAN :
          IF ok THEN pc' = "terminal_new" /\ UNCHANGED <<status, error>>
                ELSE Stop("Failed", "install")
    /\ UNCHANGED <<app, event, terminal_mode, frame, last_op, overflow_checks>>

\* Terminal::new(backend)?
TerminalNew ==
    /\ pc = "terminal_new"
    /\ \E ok \in BOOLEAN :
          IF ok THEN pc' = "clear" /\ UNCHANGED <<status, error>>
                ELSE Stop("Failed", "terminal_new")
    /\ UNCHANGED <<app, event, terminal_mode, frame, last_op, overflow_checks>>

\* terminal.clear()?
Clear ==
    /\ pc = "clear"
    /\ \E ok \in BOOLEAN :
          IF ok THEN pc' = "render" /\ UNCHANGED <<status, error>>
                ELSE Stop("Failed", "clear")
    /\ UNCHANGED <<app, event, terminal_mode, frame, last_op, overflow_checks>>

\* AppPresenter::render: terminal.draw(..).unwrap() panics when drawing fails
Render ==
    /\ pc = "render"
    /\ \E ok \in BOOLEAN :
          IF ok THEN /\ frame' = render(app)
                     /\ pc' = "poll"
                     /\ UNCHANGED <<status, error>>
                ELSE Stop("Panicked", "draw") /\ UNCHANGED frame
    /\ UNCHANGED <<app, event, terminal_mode, last_op, overflow_checks>>

\* Poll leaving the loop on a timeout
Poll_timeout_exits ==
    /\ pc = "poll"
    /\ \E r \in {"ready", "timeout", "err"} :
          CASE r = "ready"   -> pc' = "read" /\ UNCHANGED <<status, error>>
            [] r = "timeout" -> Stop("Exiting", "none")
            [] r = "err"     -> Stop("Failed", "poll")
    /\ UNCHANGED <<app, event, terminal_mode, frame, last_op, overflow_checks>>

\* event::poll(500 ms)?: Ok(true), Ok(false) on timeout, or Err
Poll ==
    /\ pc = "poll"
    /\ \E r \in {"ready", "timeout", "err"} :
          CASE r = "ready"   -> pc' = "read" /\ UNCHANGED <<status, error>>
            [] r = "timeout" -> pc' = "render" /\ UNCHANGED <<status, error>>
            [] r = "err"     -> Stop("Failed", "poll")
    /\ UNCHANGED <<app, event, terminal_mode, frame, last_op, overflow_checks>>

\* event::read()?: a key event goes to the handler, any other event is dropped
Read ==
    /\ pc = "read"
    /\ \/ \E e \in Events :
             /\ event' = e
             /\ pc' = IF e.type = "Key" THEN "handle" ELSE "render"
             /\ UNCHANGED <<status, error>>
       \/ Stop("Failed", "read") /\ UNCHANGED event
    /\ UNCHANGED <<app, terminal_mode, frame, last_op, overflow_checks>>

\* InputHandler::handle_key_event(&mut app, key_event) and the break on true
HandleKeyEvent ==
    /\ pc = "handle"
    /\ LET r == handle_key_event(app, event, overflow_checks) IN
          /\ app' = r.app
          /\ last_op' = IF Dispatch(event) = "none" THEN last_op ELSE Dispatch(event)
          /\ IF r.panicked THEN Stop("Panicked", "none")
             ELSE IF ExitRequested(event) THEN Stop("Exiting", "none")
             ELSE pc' = "render" /\ UNCHANGED <<status, error>>
    /\ UNCHANGED <<event, terminal_mode, frame, overflow_checks>>

\* App::new(vec!["Choice 1", "Choice 2", "Choice 3"]) reads and writes nothing
\* but the App it builds, so the App is taken as built from the start.
Init ==
    /\ app = new(StartupChoices)
    /\ status = "Running"
    /\ pc = "install"
    /\ event = NoEvent
    /\ error = "none"
    /\ terminal_mode = "cooked"
    /\ frame = NoFrame
    /\ last_op = "none"
    /\ overflow_checks \in BOOLEAN

Next == Install \/ TerminalNew \/ Clear \/ Render \/ Poll \/ Read \/ HandleKeyEvent

Spec == Init /\ [][Next]_vars

----------------------------------------------------------------------------
(* The methods of App called directly, in any order, on any choice list *)

Call(op, r) ==
    /\ app' = r.app
    /\ last_op' = op
    /\ status' = IF r.panicked THEN "Panicked" ELSE "Running"
    /\ UNCHANGED <<pc, event, error, terminal_mode, frame, overflow_checks>>

SelectNext ==
    /\ pc = "call"
    /\ status = "Running"
    /\ Call("select_next", select_next(app))

SelectPrevious ==
    /\ pc = "call"
    /\ status = "Running"
    /\ Call("select_previous", select_previous(app, overflow_checks))

ConfirmSelection ==
    /\ pc = "call"
    /\ status = "Running"
    /\ Call("confirm_selection", confirm_selection(app))

\* App::update_message is public as well and can be called on its own
UpdateMessage ==
    /\ pc = "call"
    /\ status = "Running"
    /\ Call("update_message", update_message(app))

AppInit ==
    /\ \E choices \in ChoiceLists : app = new(choices)
    /\ status = "Running"
    /\ pc = "call"
    /\ event = NoEvent
    /\ error = "none"
    /\ terminal_mode = "cooked"
    /\ frame = NoFrame
    /\ last_op = "none"
    /\ overflow_checks \in BOOLEAN

AppNext == SelectNext \/ SelectPrevious \/ ConfirmSelection \/ UpdateMessage

AppSpec == AppInit /\ [][AppNext]_vars

----------------------------------------------------------------------------
(* Properties *)

n == Len(app.choices)

PressOf(code) == event.type = "Key" /\ event.kind = "Press" /\ event.code = code

\* f after r: a method called on what r left behind; not called at all when
\* r panicked, since the panic ended the run
Then(r, f(_)) == IF r.panicked THEN r ELSE f(r.app)

previous(a) == select_previous(a, overflow_checks)

\* C1: on a non-empty list of length n, selected_index is in [0, n) in every
\* state a sequence of select_next / select_previous calls reaches, the state
\* a panicking call leaves behind included.
C1_IndexInRange ==
    n >= 1 => app.selected_index \in 0..(n - 1)

\* select_next has wrapped from the last index of a 3-element list back to 0
C1_Witness ==
    /\ n = 3
    /\ last_op = "select_next"
    /\ app.selected_index = 0
    /\ status = "Running"

\* C2: on a list of length n >= 1, from any index in [0, n), select_next then
\* select_previous, and select_previous then select_next, leave selected_index
\* at the index they started from.
C2_NextPreviousInverse ==
    (status = "Running" /\ n >= 1 /\ app.selected_index \in 0..(n - 1)) =>
        /\ Then(select_next(app), previous).app.selected_index = app.selected_index
        /\ Then(previous(app), select_next).app.selected_index = app.selected_index

\* C3: right after confirm_selection returns, selected_item is
\* choices[selected_index] and selected_message is the table entry at
\* selected_index; on a non-empty list confirm_selection always returns.
C3_ConfirmCopiesItemAndMessage ==
    last_op = "confirm_selection" =>
        /\ n >= 1 => status = "Running"
        /\ status = "Running" =>
              /\ app.selected_index < n
              /\ app.selected_item = app.choices[app.selected_index + 1]
              /\ app.selected_index < Len(messages)
              /\ app.selected_message = messages[app.selected_index + 1]

\* confirm_selection has returned at the last index of a list whose last
\* choice differs from its first
C3_Witness ==
    /\ last_op = "confirm_selection"
    /\ status = "Running"
    /\ n = 3
    /\ app.selected_index = 2
    /\ app.selected_item = app.choices[3]
    /\ app.choices[3] # app.choices[1]
    /\ app.selected_message = "You selected Choice 3!"

\* C4: an Escape press handled while Running moves the loop to Exiting and
\* changes none of selected_index, selected_item, selected_message; once the
\* loop is Exiting nothing changes them or the status any more.
C4_EscapeExits ==
    /\ [][(pc = "handle" /\ status = "Running" /\ PressOf("Esc")) =>
              (status' = "Exiting" /\ pc' = "done" /\ app' = app)]_vars
    /\ [][status = "Exiting" => (status' = "Exiting" /\ app' = app)]_vars

\* the loop has exited on Escape after the selection was moved and confirmed
C4_Witness ==
    /\ status = "Exiting"
    /\ PressOf("Esc")
    /\ app.selected_index = 1
    /\ app.selected_item = "Choice 3"

\* C5: a press of a key other than Escape, ArrowUp, ArrowDown, Enter leaves
\* selected_index, selected_item, selected_message unchanged and the loop Running.
C5_OtherKeyNoEffect ==
    [][(pc = "handle" /\ event.type = "Key" /\ event.kind = "Press"
            /\ event.code \notin {"Esc", "Up", "Down", "Enter"}) =>
          (app' = app /\ status' = "Running" /\ pc' = "render")]_vars

\* a press of another key has been handled in a state with a confirmed item
C5_Witness ==
    /\ pc = "render"
    /\ PressOf("Char")
    /\ status = "Running"
    /\ app.selected_item = "Choice 2"
    /\ app.selected_index = 2

\* C6: a key event whose kind is not Press changes none of selected_index,
\* selected_item, selected_message, whatever its key code, and does not end
\* the loop, an Escape release or repeat included.
C6_NonPressIgnored ==
    [][(pc = "handle" /\ event.type = "Key" /\ event.kind # "Press") =>
          (app' = app /\ status' = "Running" /\ pc' = "render")]_vars

\* an Escape release has been handled and the loop is still running
C6_Witness ==
    /\ pc = "render"
    /\ event.type = "Key"
    /\ event.kind = "Release"
    /\ event.code = "Esc"
    /\ status = "Running"
    /\ app.selected_index = 1

\* C7: on a list of length n >= 1 at index i in [0, n), select_next sets
\* selected_index to (i + 1) mod n and select_previous sets it to
\* (i - 1 + n) mod n.
C7_ModularSteps ==
    [][(n >= 1 /\ app.selected_index \in 0..(n - 1)) =>
          /\ last_op' = "select_next" =>
                app'.selected_index = (app.selected_index + 1) % n
          /\ last_op' = "select_previous" =>
                app'.selected_index = (app.selected_index - 1 + n) % n]_vars

\* select_previous has wrapped from index 0 to the last index of a list of 3
C7_Witness ==
    /\ n = 3
    /\ last_op = "select_previous"
    /\ app.selected_index = 2
    /\ app.selected_item = ""
    /\ app.selected_message = "You selected Choice 3!"

\* C8: on the startup list selected_message is empty exactly while no
\* ArrowUp / ArrowDown / Enter press has been handled, and from then on it is
\* the table message of the current selected_index, whatever item is confirmed.
C8_MessageTracksIndex ==
    /\ n = 3
    /\ app.selected_index < Len(messages)
    /\ IF last_op = "none"
       THEN app.selected_message = ""
       ELSE app.selected_message = messages[app.selected_index + 1]

\* the message is that of the highlighted index 1 while the confirmed item is
\* the choice at index 0
C8_Witness ==
    /\ app.selected_item = "Choice 1"
    /\ app.selected_index = 1
    /\ app.selected_message = "You selected Choice 2!"

\* C9: the terminal is put into its special mode at startup, so it is in that
\* mode throughout the loop, and it is back in the mode it was found in
\* whenever the program has stopped.
C9_TerminalAcquiredAndReleased ==
    /\ pc \in {"render", "poll", "read", "handle"} => terminal_mode = "raw"
    /\ pc = "done" => terminal_mode = "cooked"

\* C10: the loop stops with success only by handling an Escape press; every
\* other way it stops is a failed call, and a failed call never ends in success.
C10_SuccessOnlyOnEscape ==
    /\ [][(status = "Running" /\ status' # "Running") =>
              /\ status' = "Exiting" =>
                    (pc = "handle" /\ PressOf("Esc") /\ error' = "none")
              /\ status' # "Exiting" =>
                    (error' # "none" /\ status' \in {"Failed", "Panicked"})]_vars
    /\ [](error # "none" => status \in {"Failed", "Panicked"})
    /\ [](status = "Exiting" => (PressOf("Esc") /\ error = "none"))

\* the loop has exited with success on Escape after an Enter press was handled
C10_Witness ==
    /\ status = "Exiting"
    /\ error = "none"
    /\ last_op = "confirm_selection"
    /\ app.selected_item = "Choice 1"

\* the frame on the screen was drawn from the App as it is now
Shown == pc \in {"poll", "read", "handle"}

Range(seq) == {seq[i] : i \in 1..Len(seq)}

EnterHandled == pc = "handle" /\ PressOf("Enter")

\* C11: a loop iteration that obtains no key event (poll times out, or the
\* event read is no key event) changes none of selected_index, selected_item,
\* selected_message, keeps the loop Running and goes on to the next render;
\* rendering changes none of them either.
C11_NoEventNoMutation ==
    /\ [][(pc = "poll" /\ error' = "none" /\ pc' # "read") =>
              (app' = app /\ status' = "Running" /\ pc' = "render")]_vars
    /\ [][(pc = "read" /\ error' = "none" /\ event'.type # "Key") =>
              (app' = app /\ status' = "Running" /\ pc' = "render")]_vars
    /\ [][pc = "render" => app' = app]_vars

\* a Resize event was read and dropped after the selection was moved and
\* confirmed, and the loop is about to render again
C11_Witness ==
    /\ pc = "render"
    /\ status = "Running"
    /\ event.type = "Resize"
    /\ app.selected_index = 2
    /\ app.selected_item = "Choice 2"
    /\ frame = render(app)

\* C12: the list drawn in Region A has the elements of choices in their
\* order, and exactly one entry has the highlight style: the one at
\* selected_index.
C12_RegionAListAndHighlight ==
    Shown =>
        /\ Len(frame.choices) = n
        /\ \A i \in 1..n : frame.choices[i].text = app.choices[i]
        /\ {i \in 1..Len(frame.choices) : frame.choices[i].style = "Yellow"}
              = {app.selected_index + 1}

\* the frame highlights the last of the three entries and not the first
C12_Witness ==
    /\ Shown
    /\ app.selected_index = 2
    /\ frame.choices[3].style = "Yellow"
    /\ frame.choices[1].style = "Default"
    /\ frame.choices[3].text = "Choice 3"

\* C13 as claimed: the line drawn in Region B is selected_item itself, hence
\* the empty string while nothing is confirmed.
C13_RegionBIsItem ==
    Shown => frame.selected = app.selected_item

\* C13 as amended: the line drawn in Region B is "Selected: " followed by
\* selected_item, and is exactly "Selected: " in every drawn frame while
\* selected_item is still empty (nothing confirmed yet).
C13_RegionBLabelledItem ==
    /\ Shown => frame.selected = "Selected: " \o app.selected_item
    /\ (frame # NoFrame /\ app.selected_item = "") => frame.selected = "Selected: "

\* a frame drawn after a confirmation at index 1
C13_Witness ==
    /\ Shown
    /\ last_op = "confirm_selection"
    /\ frame.selected = "Selected: Choice 2"

\* C14: on every non-empty list the lookup of update_message is in bounds
\* (selected_index is below the number of table entries, the table being as
\* long as the list) and no call panics.
C14_LookupInBounds ==
    n >= 1 =>
        /\ app.selected_index < Len(messages)
        /\ status # "Panicked"

\* the three methods that move or confirm the selection
SelectionOps == {"select_next", "select_previous", "confirm_selection"}

\* C15: App::new accepts the empty list, and on it every call of select_next,
\* select_previous, confirm_selection panics (only update_message returns, and
\* it leaves the index and the item as App::new set them); so whenever one of
\* the three has returned, selected_index is inside the list.
C15_EmptyListPanics ==
    /\ (n = 0 /\ last_op \in SelectionOps) => status = "Panicked"
    /\ (n = 0 /\ status = "Running") =>
           /\ last_op \in {"none", "update_message"}
           /\ app.selected_index = 0
           /\ app.selected_item = ""
    /\ (status = "Running" /\ last_op \in SelectionOps) => app.selected_index \in 0..(n - 1)

\* select_previous has panicked on the empty list, after a call of
\* update_message on it had returned
C15_Witness ==
    /\ n = 0
    /\ last_op = "select_previous"
    /\ status = "Panicked"
    /\ app.selected_message = "You selected Choice 1!"

\* C16: no step changes choices; an ArrowUp / ArrowDown press leaves
\* selected_item unchanged, an Enter press leaves selected_index unchanged,
\* and selected_item changes in no step but the handling of an Enter press.
C16_FrameOfOperations ==
    [][/\ app'.choices = app.choices
       /\ (pc = "handle" /\ (PressOf("Down") \/ PressOf("Up"))) =>
              app'.selected_item = app.selected_item
       /\ EnterHandled => app'.selected_index = app.selected_index
       /\ ~EnterHandled => app'.selected_item = app.selected_item]_vars

\* the item confirmed at index 0 is still there after the highlight moved to
\* index 2 by ArrowUp
C16_Witness ==
    /\ app.selected_item = "Choice 1"
    /\ app.selected_index = 2
    /\ last_op = "select_previous"
    /\ PressOf("Up")

\* C17: the run starts with selected_index 0 and empty selected_item and
\* selected_message; selected_item is empty until an Enter press is handled,
\* and each handled Enter press sets it to the choice highlighted then, so from
\* then on it is an element of choices.
C17_ItemEmptyUntilEnter ==
    /\ (app.selected_index = 0 /\ app.selected_item = "" /\ app.selected_message = "")
    /\ [][(~EnterHandled /\ app.selected_item = "") => app'.selected_item = ""]_vars
    /\ [][EnterHandled =>
              (/\ app'.selected_item = app.choices[app.selected_index + 1]
               /\ app'.selected_item \in Range(app.choices))]_vars
    /\ [](app.selected_item = "" \/ app.selected_item \in Range(app.choices))
    /\ [](last_op = "none" => app.selected_item = "")

\* the second Enter press replaced the item confirmed by the first
C17_Witness ==
    /\ last_op = "confirm_selection"
    /\ app.selected_item = "Choice 3"
    /\ app.selected_index = 2
    /\ frame.selected = "Selected: Choice 1"

====
